---- MODULE Spec2Model ----
(***************************************************************************)
(* Control-flow-integrity counter of the fault injection hardening        *)
(* library (fih_cfi_ctr, fih_cfi_get_and_increment, fih_cfi_validate,      *)
(* fih_cfi_decrement), the global failure loop fih_panic_loop and the      *)
(* delay hooks fih_delay_init / fih_delay_random.                          *)
(*                                                                         *)
(* A uint32_t is a record [hi, lo] of two 16-bit halves, so that the full  *)
(* 32-bit width, UINT32_MAX and the wrap-around of C unsigned arithmetic   *)
(* are kept.  A fih_uint is a record [val, msk] of two such words.         *)
(***************************************************************************)
EXTENDS Integers, Sequences, FiniteSets, TLC

VARIABLES fih_cfi_ctr,        \* the global fih_uint counter
          pc,                 \* "run", or "panic" once FIH_PANIC was reached
          sentinel,           \* the word at 0xAA01000
          double_vars,        \* build flag FIH_ENABLE_DOUBLE_VARS
          test_mode,          \* build flag FAULT_INJECTION_TEST
          decode_validates,   \* whether fih_uint_decode self-checks its operand
          start,              \* decoded counter at the start of the observation
          hist,               \* the counter operations performed, in order
          last,               \* the most recent operation
          faults,             \* number of injected faults
          loop_pc,            \* instruction of fih_panic_loop to execute next
          boot,               \* the life-cycle harness of main.c
          ctx                 \* execution contexts running counter operations

vars == <<fih_cfi_ctr, pc, sentinel, double_vars, test_mode, decode_validates,
          start, hist, last, faults, loop_pc, boot, ctx>>

----------------------------------------------------------------------------
(* Bounds *)

MaxOps == 3

MaxFaults == 1

----------------------------------------------------------------------------
(* uint32_t arithmetic on 16-bit halves *)

Half == 65536

W(h, l) == [hi |-> h, lo |-> l]

Zero == W(0, 0)

UINT32_MAX == W(65535, 65535)

\* a + n modulo 2^32, for 0 <= n < 65536
AddW(a, n) ==
    LET s == a.lo + n
    IN  W((a.hi + (s \div Half)) % Half, s % Half)

\* a - n modulo 2^32, for 0 <= n < 65536
SubW(a, n) ==
    IF a.lo >= n THEN W(a.hi, a.lo - n)
    ELSE W((a.hi + Half - 1) % Half, a.lo + Half - n)

GtW(a, b) == a.hi > b.hi \/ (a.hi = b.hi /\ a.lo > b.lo)

LtW(a, b) == GtW(b, a)

\* exclusive or of two bits
XorBit(a, b) == (a + b) % 2

\* exclusive or of two 4-bit digits
Xor4 ==
    [a \in 0..15 |-> [b \in 0..15 |->
        XorBit(a % 2, b % 2)
        + (2 * XorBit((a \div 2) % 2, (b \div 2) % 2))
        + (4 * XorBit((a \div 4) % 2, (b \div 4) % 2))
        + (8 * XorBit(a \div 8, b \div 8))]]

\* exclusive or of two numbers of k 4-bit digits
RECURSIVE XorN(_, _, _)
XorN(a, b, k) ==
    IF k = 0 THEN 0
    ELSE Xor4[a % 16][b % 16] + (16 * XorN(a \div 16, b \div 16, k - 1))

XorW(a, b) == W(XorN(a.hi, b.hi, 4), XorN(a.lo, b.lo, 4))

----------------------------------------------------------------------------
(* The encoded-integer primitive of bootutil/fault_injection_hardening.h *)

\* 0xA5C35A3C
FIH_UINT_MASK_VALUE == W(42435, 23100)

FIH_TRUE == "FIH_TRUE"

FIH_FALSE == "FIH_FALSE"

FihUint(v, m) == [val |-> v, msk |-> m]

fih_uint_encode(x) == FihUint(x, XorW(x, FIH_UINT_MASK_VALUE))

\* the structural self-check passes
fih_uint_validate(x) == x.val = XorW(x.msk, FIH_UINT_MASK_VALUE)

\* the plain value; DecodePanics tells whether decoding reaches FIH_PANIC
fih_uint_decode(x) == x.val

DecodePanics(x, dv) == dv /\ ~fih_uint_validate(x)

fih_uint_eq(x, y) ==
    IF /\ fih_uint_validate(x)
       /\ fih_uint_validate(y)
       /\ x.val = y.val
       /\ x.msk = y.msk
    THEN FIH_TRUE ELSE FIH_FALSE

----------------------------------------------------------------------------
(* Inputs *)

\* values of the uint8_t argument cnt
CntValues == {0, 1, 5, 255}

\* decoded counter values at which an observation starts
StartValues == {Zero, SubW(UINT32_MAX, 255), SubW(UINT32_MAX, 5),
                SubW(UINT32_MAX, 2), UINT32_MAX}

NoValue == FihUint(Zero, Zero)

OpRec(o, c, s, r, b, out, before) ==
    [op |-> o, cnt |-> c, saved |-> s, ret |-> r, rnd |-> b,
     outcome |-> out, pre |-> before]

\* snapshots returned to the caller so far
Snapshots ==
    {hist[i].ret : i \in {j \in 1..Len(hist) :
                            /\ hist[j].op = "get_and_increment"
                            /\ hist[j].outcome = "return"}}

----------------------------------------------------------------------------
(* fih_cfi_get_and_increment *)

\* the overflow test written with >= for >
OverflowsGe(ctr, cnt) == ~LtW(fih_uint_decode(ctr), SubW(UINT32_MAX, cnt))

\* the overflow test of line 17
Overflows(ctr, cnt) == GtW(fih_uint_decode(ctr), SubW(UINT32_MAX, cnt))

\* the update adds 1 whatever cnt is
CtrAddByOne(ctr, cnt, dbl) ==
    IF dbl
    THEN FihUint(AddW(ctr.val, 1),
                 XorW(AddW(XorW(ctr.msk, FIH_UINT_MASK_VALUE), 1),
                      FIH_UINT_MASK_VALUE))
    ELSE fih_uint_encode(AddW(fih_uint_decode(ctr), 1))

\* the check word is advanced without being unmasked first
CtrAddRawMask(ctr, cnt, dbl) ==
    IF dbl
    THEN FihUint(AddW(ctr.val, cnt), AddW(ctr.msk, cnt))
    ELSE fih_uint_encode(AddW(fih_uint_decode(ctr), cnt))

\* the update of lines 22-27
CtrAdd(ctr, cnt, dbl) ==
    IF dbl
    THEN FihUint(AddW(ctr.val, cnt),
                 XorW(AddW(XorW(ctr.msk, FIH_UINT_MASK_VALUE), cnt),
                      FIH_UINT_MASK_VALUE))
    ELSE fih_uint_encode(AddW(fih_uint_decode(ctr), cnt))

\* the counter is returned after the update instead of saved_ctr
GetAndIncrementReturnsNew(ctr, cnt, dbl, dv) ==
    LET saved_ctr == ctr
        new == CtrAdd(ctr, cnt, dbl)
    IN  IF DecodePanics(ctr, dv) \/ Overflows(ctr, cnt)
        THEN [ctr |-> ctr, ret |-> NoValue, outcome |-> "panic"]
        ELSE IF ~fih_uint_validate(new) \/ ~fih_uint_validate(saved_ctr)
        THEN [ctr |-> new, ret |-> NoValue, outcome |-> "panic"]
        ELSE [ctr |-> new, ret |-> new, outcome |-> "return"]

fih_cfi_get_and_increment(ctr, cnt, dbl, dv) ==
    LET saved_ctr == ctr
        new == CtrAdd(ctr, cnt, dbl)
    IN  IF DecodePanics(ctr, dv) \/ Overflows(ctr, cnt)
        THEN [ctr |-> ctr, ret |-> NoValue, outcome |-> "panic"]
        ELSE IF ~fih_uint_validate(new) \/ ~fih_uint_validate(saved_ctr)
        THEN [ctr |-> new, ret |-> NoValue, outcome |-> "panic"]
        ELSE [ctr |-> new, ret |-> saved_ctr, outcome |-> "return"]

GetAndIncrement(cnt) ==
    /\ pc = "run"
    /\ Len(hist) < MaxOps
    /\ LET r == fih_cfi_get_and_increment(fih_cfi_ctr, cnt, double_vars,
                                          decode_validates)
       IN  /\ fih_cfi_ctr' = r.ctr
           /\ pc' = IF r.outcome = "panic" THEN "panic" ELSE "run"
           /\ last' = OpRec("get_and_increment", cnt, NoValue, r.ret, 0,
                            r.outcome, fih_cfi_ctr)
    /\ hist' = Append(hist, last')
    /\ UNCHANGED <<loop_pc, boot, ctx, sentinel, double_vars, test_mode, decode_validates,
                   start, faults>>

----------------------------------------------------------------------------
(* fih_cfi_validate *)

\* the test of line 40 inverted
ValidateInverted(ctr, saved) ==
    LET rc == fih_uint_eq(saved, ctr)
    IN  IF rc = FIH_TRUE THEN "panic" ELSE "return"

\* only the value words are compared
ValidateValOnly(ctr, saved) ==
    IF saved.val # ctr.val THEN "panic" ELSE "return"

\* only the check words are compared
ValidateMskOnly(ctr, saved) ==
    IF saved.msk # ctr.msk THEN "panic" ELSE "return"

fih_cfi_validate(ctr, saved) ==
    LET rc == fih_uint_eq(saved, ctr)
    IN  IF rc # FIH_TRUE THEN "panic" ELSE "return"

\* validate adjusts the counter to the snapshot
ValidateResync(saved) ==
    /\ pc = "run"
    /\ Len(hist) < MaxOps
    /\ LET out == fih_cfi_validate(fih_cfi_ctr, saved)
       IN  /\ pc' = IF out = "panic" THEN "panic" ELSE "run"
           /\ last' = OpRec("validate", 0, saved, NoValue, 0, out,
                            fih_cfi_ctr)
    /\ fih_cfi_ctr' = saved
    /\ hist' = Append(hist, last')
    /\ UNCHANGED <<loop_pc, boot, ctx, sentinel, double_vars, test_mode, decode_validates,
                   start, faults>>

Validate(saved) ==
    /\ pc = "run"
    /\ Len(hist) < MaxOps
    /\ LET out == fih_cfi_validate(fih_cfi_ctr, saved)
       IN  /\ pc' = IF out = "panic" THEN "panic" ELSE "run"
           /\ last' = OpRec("validate", 0, saved, NoValue, 0, out,
                            fih_cfi_ctr)
    /\ hist' = Append(hist, last')
    /\ UNCHANGED <<loop_pc, boot, ctx, fih_cfi_ctr, sentinel, double_vars, test_mode,
                   decode_validates, start, faults>>

----------------------------------------------------------------------------
(* fih_cfi_decrement *)

\* the underflow test written as < 0u, which no unsigned value satisfies
UnderflowsNever(ctr) == LtW(fih_uint_decode(ctr), Zero)

\* the underflow test of line 47
Underflows(ctr) == LtW(fih_uint_decode(ctr), W(0, 1))

\* the update copied from the increment: + 1u for - 1u
CtrSubPlus(ctr, dbl) == CtrAdd(ctr, 1, dbl)

\* the check word rebuilt from the new value word
CtrSubDerivedMask(ctr, dbl) == fih_uint_encode(SubW(ctr.val, 1))

\* line 53 is missing: the check word is not updated
CtrSubValOnly(ctr, dbl) ==
    IF dbl
    THEN FihUint(SubW(ctr.val, 1), ctr.msk)
    ELSE fih_uint_encode(SubW(fih_uint_decode(ctr), 1))

\* the update subtracts 2
CtrSubTwo(ctr, dbl) ==
    IF dbl
    THEN FihUint(SubW(ctr.val, 2),
                 XorW(SubW(XorW(ctr.msk, FIH_UINT_MASK_VALUE), 2),
                      FIH_UINT_MASK_VALUE))
    ELSE fih_uint_encode(SubW(fih_uint_decode(ctr), 2))

\* the update of lines 51-56
CtrSub(ctr, dbl) ==
    IF dbl
    THEN FihUint(SubW(ctr.val, 1),
                 XorW(SubW(XorW(ctr.msk, FIH_UINT_MASK_VALUE), 1),
                      FIH_UINT_MASK_VALUE))
    ELSE fih_uint_encode(SubW(fih_uint_decode(ctr), 1))

fih_cfi_decrement(ctr, dbl, dv) ==
    LET new == CtrSub(ctr, dbl)
    IN  IF DecodePanics(ctr, dv) \/ Underflows(ctr)
        THEN [ctr |-> ctr, outcome |-> "panic"]
        ELSE IF ~fih_uint_validate(new)
        THEN [ctr |-> new, outcome |-> "panic"]
        ELSE [ctr |-> new, outcome |-> "return"]

Decrement ==
    /\ pc = "run"
    /\ Len(hist) < MaxOps
    /\ LET r == fih_cfi_decrement(fih_cfi_ctr, double_vars, decode_validates)
       IN  /\ fih_cfi_ctr' = r.ctr
           /\ pc' = IF r.outcome = "panic" THEN "panic" ELSE "run"
           /\ last' = OpRec("decrement", 0, NoValue, NoValue, 0, r.outcome,
                            fih_cfi_ctr)
    /\ hist' = Append(hist, last')
    /\ UNCHANGED <<loop_pc, boot, ctx, sentinel, double_vars, test_mode, decode_validates,
                   start, faults>>

----------------------------------------------------------------------------
(* fih_panic_loop *)

\* FIH_PANIC used by a caller of the library on its own invariant violation
CallPanic ==
    /\ pc = "run"
    /\ pc' = "panic"
    /\ last' = OpRec("panic_call", 0, NoValue, NoValue, 0, "panic",
                     fih_cfi_ctr)
    /\ UNCHANGED <<loop_pc, boot, ctx, fih_cfi_ctr, sentinel, double_vars, test_mode,
                   decode_validates, start, hist, faults>>

\* number of "b fih_panic_loop" instructions, lines 78-86
NumBranches == 9

\* a failure loop of one branch with nothing after it
PanicInstrSingle(pos, tm) ==
    IF tm
    THEN (IF pos = 1 THEN "store" ELSE IF pos = 2 THEN "branch" ELSE "outside")
    ELSE (IF pos = 1 THEN "branch" ELSE "outside")

\* the instruction at position pos of fih_panic_loop: the store and the
\* branch back of the do-while loop in test mode, otherwise the branches to
\* fih_panic_loop followed by while (true) {}
PanicInstr(pos, tm) ==
    IF tm
    THEN (IF pos = 1 THEN "store" ELSE IF pos = 2 THEN "branch" ELSE "outside")
    ELSE (IF pos \in 1..NumBranches THEN "branch"
          ELSE IF pos = NumBranches + 1 THEN "spin" ELSE "outside")

\* the failure loop falls through and returns
PanicLoopReturns ==
    /\ pc = "panic"
    /\ pc' = "run"
    /\ sentinel' = IF test_mode THEN 2 ELSE sentinel
    /\ last' = OpRec("panic_loop", 0, NoValue, NoValue, 0, "return",
                     fih_cfi_ctr)
    /\ UNCHANGED <<loop_pc, boot, ctx, fih_cfi_ctr, double_vars, test_mode,
                   decode_validates, start, hist, faults>>

\* the sentinel is written in production mode instead of test mode
PanicLoopWrongMode ==
    /\ pc = "panic"
    /\ pc' = "panic"
    /\ sentinel' = IF ~test_mode THEN 2 ELSE sentinel
    /\ loop_pc' = 1
    /\ last' = OpRec("panic_loop", 0, NoValue, NoValue, 0, "loop",
                     fih_cfi_ctr)
    /\ UNCHANGED <<boot, ctx, fih_cfi_ctr, double_vars, test_mode,
                   decode_validates, start, hist, faults>>

\* one instruction of the failure loop
fih_panic_loop ==
    /\ pc = "panic"
    /\ pc' = "panic"
    /\ LET ins == PanicInstr(loop_pc, test_mode)
       IN  /\ sentinel' = IF ins = "store" THEN 2 ELSE sentinel
           /\ loop_pc' = IF ins = "store" THEN loop_pc + 1
                         ELSE IF ins = "branch" THEN 1
                         ELSE loop_pc
    /\ last' = OpRec("panic_loop", 0, NoValue, NoValue, 0, "loop",
                     fih_cfi_ctr)
    /\ UNCHANGED <<boot, ctx, fih_cfi_ctr, double_vars, test_mode,
                   decode_validates, start, hist, faults>>

\* a fault that skips the instruction of the failure loop about to execute
Skip ==
    /\ pc = "panic"
    /\ faults < MaxFaults
    /\ faults' = faults + 1
    /\ loop_pc' = loop_pc + 1
    /\ pc' = IF PanicInstr(loop_pc + 1, test_mode) = "outside"
             THEN "escaped" ELSE "panic"
    /\ last' = OpRec("skip", 0, NoValue, NoValue, 0, "loop", fih_cfi_ctr)
    /\ UNCHANGED <<boot, ctx, fih_cfi_ctr, sentinel, double_vars, test_mode,
                   decode_validates, start, hist>>

----------------------------------------------------------------------------
(* fih_delay_init, fih_delay_random *)

fih_delay_init ==
    /\ pc = "run"
    /\ last' = OpRec("delay_init", 0, NoValue, NoValue, 0, "return",
                     fih_cfi_ctr)
    /\ UNCHANGED <<loop_pc, boot, ctx, fih_cfi_ctr, pc, sentinel, double_vars, test_mode,
                   decode_validates, start, hist, faults>>

fih_delay_random ==
    /\ pc = "run"
    /\ last' = OpRec("delay_random", 0, NoValue, NoValue, 255, "return",
                     fih_cfi_ctr)
    /\ UNCHANGED <<loop_pc, boot, ctx, fih_cfi_ctr, pc, sentinel, double_vars, test_mode,
                   decode_validates, start, hist, faults>>

----------------------------------------------------------------------------
(* A fault that replaces exactly one word of the counter, between two      *)
(* operations                                                              *)

FaultWords(w) ==
    {Zero, UINT32_MAX, XorW(w, W(0, 1)), XorW(w, W(32768, 0))} \ {w}

Fault ==
    /\ pc = "run"
    /\ Len(hist) < MaxOps
    /\ last.op # "fault"
    /\ faults < MaxFaults
    /\ faults' = faults + 1
    /\ \/ \E w \in FaultWords(fih_cfi_ctr.val) :
            fih_cfi_ctr' = FihUint(w, fih_cfi_ctr.msk)
       \/ \E w \in FaultWords(fih_cfi_ctr.msk) :
            fih_cfi_ctr' = FihUint(fih_cfi_ctr.val, w)
    /\ last' = OpRec("fault", 0, NoValue, NoValue, 0, "return", fih_cfi_ctr)
    /\ UNCHANGED <<loop_pc, boot, ctx, pc, sentinel, double_vars, test_mode, decode_validates,
                   start, hist>>

----------------------------------------------------------------------------
(* Two execution contexts running fih_cfi_get_and_increment and            *)
(* fih_cfi_decrement with no mutual exclusion: every read and every write  *)
(* of a word of fih_cfi_ctr in the update is a step of its own.            *)

Contexts == {1, 2}

\* values of cnt used by the two contexts
RaceCnt == {1, 5}

CtxRec(p, o, c, s, w, why) ==
    [pc |-> p, op |-> o, cnt |-> c, saved |-> s, t |-> w, cause |-> why]

CtxIdle == CtxRec("idle", "none", 0, NoValue, Zero, "none")

\* the update treats a decrement as an increment
RaceUpdateAdds(op, w, cnt, dbl) == CtrAdd(FihUint(w, w), cnt, dbl)

\* the words that lines 23-26 or 52-55 compute from a word w just read
RaceUpdate(op, w, cnt, dbl) ==
    IF op = "get_and_increment" THEN CtrAdd(FihUint(w, w), cnt, dbl)
    ELSE CtrSub(FihUint(w, w), dbl)

RaceStep(i, r) == ctx' = [ctx EXCEPT !.run[i] = r]

RaceQuiet ==
    /\ UNCHANGED <<sentinel, double_vars, test_mode, decode_validates, start,
                   faults, loop_pc, boot>>
    /\ last' = last

\* context i reaches FIH_PANIC
RacePanic(i, why) ==
    /\ pc' = "panic"
    /\ RaceStep(i, [ctx.run[i] EXCEPT !.pc = "panicked", !.cause = why])
    /\ hist' = Append(hist, OpRec(ctx.run[i].op, ctx.run[i].cnt, NoValue,
                                  NoValue, 0, "panic", ctx.run[i].saved))
    /\ fih_cfi_ctr' = fih_cfi_ctr

\* the call, and for get_and_increment the copy of line 15
RaceBegin(i) ==
    /\ pc = "run"
    /\ ctx.run[i].pc = "idle"
    /\ Len(hist) + Cardinality({j \in Contexts : ctx.run[j].pc # "idle"})
         < MaxOps
    /\ \/ \E cnt \in RaceCnt :
            ctx' = [ctx EXCEPT
                      !.run[i] = CtxRec("check", "get_and_increment", cnt,
                                        fih_cfi_ctr, Zero, "none"),
                      !.overlap = @ \/ \E j \in Contexts \ {i} :
                                         ctx.run[j].pc # "idle"]
       \/ ctx' = [ctx EXCEPT
                    !.run[i] = CtxRec("check", "decrement", 0, NoValue, Zero,
                                      "none"),
                    !.overlap = @ \/ \E j \in Contexts \ {i} :
                                       ctx.run[j].pc # "idle"]
    /\ UNCHANGED <<fih_cfi_ctr, pc, hist>>
    /\ RaceQuiet

\* the test of line 17 or of line 47
RaceCheck(i) ==
    /\ pc = "run"
    /\ ctx.run[i].pc = "check"
    /\ IF DecodePanics(fih_cfi_ctr, decode_validates)
       THEN RacePanic(i, "selfcheck")
       ELSE IF ctx.run[i].op = "get_and_increment"
               /\ Overflows(fih_cfi_ctr, ctx.run[i].cnt)
       THEN RacePanic(i, "overflow")
       ELSE IF ctx.run[i].op = "decrement" /\ Underflows(fih_cfi_ctr)
       THEN RacePanic(i, "underflow")
       ELSE /\ RaceStep(i, [ctx.run[i] EXCEPT !.pc = "ldval"])
            /\ UNCHANGED <<fih_cfi_ctr, pc, hist>>
    /\ RaceQuiet

\* the read of the value word in line 23, 26, 52 or 55
RaceLoadVal(i) ==
    /\ pc = "run"
    /\ ctx.run[i].pc = "ldval"
    /\ IF ~double_vars /\ DecodePanics(fih_cfi_ctr, decode_validates)
       THEN RacePanic(i, "selfcheck")
       ELSE /\ RaceStep(i, [ctx.run[i] EXCEPT !.pc = "stval",
                                             !.t = fih_cfi_ctr.val])
            /\ UNCHANGED <<fih_cfi_ctr, pc, hist>>
    /\ RaceQuiet

\* the write of the value word
RaceStoreVal(i) ==
    /\ pc = "run"
    /\ ctx.run[i].pc = "stval"
    /\ fih_cfi_ctr' =
         FihUint(RaceUpdate(ctx.run[i].op, ctx.run[i].t, ctx.run[i].cnt,
                            double_vars).val,
                 fih_cfi_ctr.msk)
    /\ RaceStep(i, [ctx.run[i] EXCEPT
                      !.pc = IF double_vars THEN "ldmsk" ELSE "stmsk"])
    /\ UNCHANGED <<pc, hist>>
    /\ RaceQuiet

\* the read of the check word in line 24 or 53
RaceLoadMsk(i) ==
    /\ pc = "run"
    /\ ctx.run[i].pc = "ldmsk"
    /\ RaceStep(i, [ctx.run[i] EXCEPT !.pc = "stmsk", !.t = fih_cfi_ctr.msk])
    /\ UNCHANGED <<fih_cfi_ctr, pc, hist>>
    /\ RaceQuiet

\* the write of the check word
RaceStoreMsk(i) ==
    /\ pc = "run"
    /\ ctx.run[i].pc = "stmsk"
    /\ fih_cfi_ctr' =
         FihUint(fih_cfi_ctr.val,
                 RaceUpdate(ctx.run[i].op, ctx.run[i].t, ctx.run[i].cnt,
                            double_vars).msk)
    /\ RaceStep(i, [ctx.run[i] EXCEPT !.pc = "selfcheck"])
    /\ UNCHANGED <<pc, hist>>
    /\ RaceQuiet

\* the self-checks of lines 29-30 or of line 58, and the return
RaceSelfCheck(i) ==
    /\ pc = "run"
    /\ ctx.run[i].pc = "selfcheck"
    /\ IF \/ ~fih_uint_validate(fih_cfi_ctr)
          \/ /\ ctx.run[i].op = "get_and_increment"
             /\ ~fih_uint_validate(ctx.run[i].saved)
       THEN RacePanic(i, "selfcheck")
       ELSE /\ RaceStep(i, CtxIdle)
            /\ hist' = Append(hist,
                              OpRec(ctx.run[i].op, ctx.run[i].cnt, NoValue,
                                    ctx.run[i].saved, 0, "return",
                                    ctx.run[i].saved))
            /\ UNCHANGED <<fih_cfi_ctr, pc>>
    /\ RaceQuiet

----------------------------------------------------------------------------
(* The life-cycle harness: main and cyboot_read_lcs of main.c *)

\* 0x01230123
LCS_VIRGIN == W(291, 291)

\* 0x12341234
LCS_SORT == W(4660, 4660)

\* 0x23452345
LCS_PROVISIONED == W(9029, 9029)

\* 0x34563456
LCS_NORMAL == W(13398, 13398)

\* 0x45674567
LCS_NORMAL_NO_SECURE == W(17767, 17767)

\* 0x56785678
LCS_NORMAL_PROVISIONED == W(22136, 22136)

\* 0x67896789
LCS_SECURE == W(26505, 26505)

\* 0x12345678
LCS_RMA_KBR == W(4660, 22136)

\* 0x11112222
LCS_RMA_KBNR == W(4369, 8738)

\* 0x22223333
LCS_RMA_KPBR == W(8738, 13107)

\* 0x33334444
LCS_RMA_KPBSR == W(13107, 17476)

\* 0x44445555
LCS_RMA == W(17476, 21845)

\* 0xFEFEFEFE
LCS_CORRUPTED == W(65278, 65278)

CYBOOT_SUCCESS == 0

CYBOOT_BOOTROW_CORRUPTED == 0 - 1

\* first words of the loaded image
ImageWords ==
    {LCS_VIRGIN, LCS_SORT, LCS_PROVISIONED, LCS_NORMAL, LCS_NORMAL_NO_SECURE,
     LCS_NORMAL_PROVISIONED, LCS_SECURE, LCS_RMA_KBR, LCS_RMA_KBNR,
     LCS_RMA_KPBR, LCS_RMA_KPBSR, LCS_RMA, LCS_CORRUPTED, Zero, UINT32_MAX,
     AddW(LCS_VIRGIN, 1), SubW(LCS_RMA_KPBSR, 1), AddW(LCS_RMA_KBR, 1),
     W(4660, 0), W(0, 22136)}

\* the case labels of lines 68-74 and of lines 78-81
CaseOf(checksum) ==
    IF checksum \in {LCS_VIRGIN, LCS_SORT, LCS_PROVISIONED, LCS_NORMAL,
                     LCS_NORMAL_NO_SECURE, LCS_NORMAL_PROVISIONED, LCS_SECURE}
    THEN "case_plain"
    ELSE IF checksum \in {LCS_RMA_KBR, LCS_RMA_KBNR, LCS_RMA_KPBR,
                          LCS_RMA_KPBSR}
    THEN "case_rma"
    ELSE "case_default"

\* the test of line 82 written with || for &&
RmaCheckFailsOr(checksum) ==
    \/ checksum # LCS_RMA_KBR
    \/ checksum # LCS_RMA_KBNR
    \/ checksum # LCS_RMA_KPBR
    \/ checksum # LCS_RMA_KPBSR

\* the test of line 82
RmaCheckFails(checksum) ==
    /\ checksum # LCS_RMA_KBR
    /\ checksum # LCS_RMA_KBNR
    /\ checksum # LCS_RMA_KPBR
    /\ checksum # LCS_RMA_KPBSR

\* the body of the case that the switch selected, lines 68-92
CaseBody(branch, checksum) ==
    IF branch = "case_plain"
    THEN [lcs |-> checksum, ret |-> CYBOOT_SUCCESS, panic |-> FALSE]
    ELSE IF branch = "case_rma"
    THEN (IF RmaCheckFails(checksum)
          THEN [lcs |-> LCS_CORRUPTED, ret |-> CYBOOT_BOOTROW_CORRUPTED,
                panic |-> TRUE]
          ELSE [lcs |-> LCS_RMA, ret |-> CYBOOT_SUCCESS, panic |-> FALSE])
    ELSE [lcs |-> LCS_CORRUPTED, ret |-> CYBOOT_BOOTROW_CORRUPTED,
          panic |-> FALSE]

\* cyboot_read_lcs on a checksum that does not change while it runs
cyboot_read_lcs(checksum) == CaseBody(CaseOf(checksum), checksum)

\* the test of line 36 written with || for &&
MainLaunchesOr(res, lcs) == res = CYBOOT_SUCCESS \/ lcs = LCS_RMA

\* the test of line 36
MainLaunches(res, lcs) == res = CYBOOT_SUCCESS /\ lcs = LCS_RMA

BootRec(p, i, c, l, r, s) ==
    [pc |-> p, img |-> i, checksum |-> c, lcs |-> l, res |-> r, sim |-> s]

\* lines 30-35 up to the call, and lines 63-64
MainStart ==
    /\ pc = "run"
    /\ boot.pc = "start"
    /\ boot' = BootRec("switch", boot.img, boot.img, LCS_CORRUPTED,
                       0 - 1, "none")
    /\ UNCHANGED <<fih_cfi_ctr, pc, sentinel, double_vars, test_mode,
                   decode_validates, start, hist, last, faults, loop_pc, ctx>>

\* the switch of line 66
ReadLcsSwitch ==
    /\ pc = "run"
    /\ boot.pc = "switch"
    /\ boot' = [boot EXCEPT !.pc = CaseOf(boot.checksum)]
    /\ UNCHANGED <<fih_cfi_ctr, pc, sentinel, double_vars, test_mode,
                   decode_validates, start, hist, last, faults, loop_pc, ctx>>

\* the selected case, the return of line 95 and the assignment of line 35
ReadLcsCase ==
    /\ pc = "run"
    /\ boot.pc \in {"case_plain", "case_rma", "case_default"}
    /\ LET r == CaseBody(boot.pc, boot.checksum)
       IN  IF r.panic
           THEN /\ pc' = "panic"
                /\ boot' = [boot EXCEPT !.pc = "panicked"]
           ELSE /\ pc' = pc
                /\ boot' = [boot EXCEPT !.pc = "decide", !.lcs = r.lcs,
                                        !.res = r.ret]
    /\ UNCHANGED <<fih_cfi_ctr, sentinel, double_vars, test_mode,
                   decode_validates, start, hist, last, faults, loop_pc, ctx>>

\* lines 36-44
MainDecide ==
    /\ pc = "run"
    /\ boot.pc = "decide"
    /\ boot' = [boot EXCEPT !.pc = "done",
                            !.sim = IF MainLaunches(boot.res, boot.lcs)
                                    THEN "success" ELSE "failed"]
    /\ UNCHANGED <<fih_cfi_ctr, pc, sentinel, double_vars, test_mode,
                   decode_validates, start, hist, last, faults, loop_pc, ctx>>

\* a fault that changes the volatile checksum between the switch and the
\* selected case
Glitch ==
    /\ pc = "run"
    /\ boot.pc \in {"case_plain", "case_rma", "case_default"}
    /\ faults < MaxFaults
    /\ faults' = faults + 1
    /\ \E w \in ImageWords \ {boot.checksum} :
         boot' = [boot EXCEPT !.checksum = w]
    /\ UNCHANGED <<fih_cfi_ctr, pc, sentinel, double_vars, test_mode,
                   decode_validates, start, hist, last, loop_pc, ctx>>

----------------------------------------------------------------------------
(* Faults on the counter and the specifications *)

\* the word with only bit b set, 0 <= b <= 31
BitW(b) == IF b < 16 THEN W(0, 2 ^ b) ELSE W(2 ^ (b - 16), 0)

\* the single fault that flips one bit of one word of the counter
BitFlip ==
    /\ pc = "run"
    /\ Len(hist) < MaxOps
    /\ faults = 0
    /\ faults' = 1
    /\ \E b \in 0..31 :
         /\ \/ fih_cfi_ctr' = FihUint(XorW(fih_cfi_ctr.val, BitW(b)),
                                      fih_cfi_ctr.msk)
            \/ fih_cfi_ctr' = FihUint(fih_cfi_ctr.val,
                                      XorW(fih_cfi_ctr.msk, BitW(b)))
         /\ last' = OpRec("fault", b, NoValue, NoValue, 0, "return",
                          fih_cfi_ctr)
    /\ UNCHANGED <<loop_pc, boot, ctx, pc, sentinel, double_vars, test_mode, decode_validates,
                   start, hist>>

\* fresh encodings of the plain value of the counter, now and before a fault
EncodedInputs ==
    {fih_uint_encode(fih_uint_decode(fih_cfi_ctr))}
    \cup (IF last.op = "fault"
          THEN {fih_uint_encode(fih_uint_decode(last.pre))} ELSE {})

----------------------------------------------------------------------------
(* Specifications *)

BootOff == [pc |-> "off"]

CtxOff == [run |-> <<>>, overlap |-> FALSE]

InitCounter(s) ==
    /\ start = s
    /\ fih_cfi_ctr = fih_uint_encode(s)
    /\ pc = "run"
    /\ sentinel = 0
    /\ double_vars \in BOOLEAN
    /\ test_mode \in BOOLEAN
    /\ decode_validates \in BOOLEAN
    /\ hist = <<>>
    /\ last = OpRec("none", 0, NoValue, NoValue, 0, "return",
                    fih_uint_encode(s))
    /\ faults = 0
    /\ loop_pc = 1

InitFrom(s) ==
    /\ InitCounter(s)
    /\ boot = BootOff
    /\ ctx = CtxOff

\* the harness started on an image whose first word is one of ImageWords
InitBoot ==
    /\ InitCounter(Zero)
    /\ ctx = CtxOff
    /\ \E w \in ImageWords :
         boot = BootRec("start", w, Zero, Zero, 0, "none")

\* both contexts idle, the counter as constructed
InitRace ==
    /\ InitCounter(Zero)
    /\ boot = BootOff
    /\ ctx = [run |-> [i \in Contexts |-> CtxIdle], overlap |-> FALSE]

\* fih_cfi_ctr = FIH_UINT_INIT(0u)
Init == InitFrom(Zero)

\* the counter as left by some earlier run of counter operations
InitMid == \E s \in StartValues : InitFrom(s)

CounterOp ==
    \/ \E cnt \in CntValues : GetAndIncrement(cnt)
    \/ \E saved \in Snapshots \cup {fih_uint_encode(start)} : Validate(saved)
    \/ Decrement

Next ==
    \/ CounterOp
    \/ CallPanic
    \/ fih_panic_loop
    \/ fih_delay_init
    \/ fih_delay_random

NextFault ==
    \/ CounterOp
    \/ CallPanic
    \/ fih_panic_loop
    \/ Fault

NextEq ==
    \/ \E cnt \in {1, 255} : GetAndIncrement(cnt)
    \/ Decrement
    \/ \E saved \in EncodedInputs : Validate(saved)
    \/ BitFlip
    \/ fih_panic_loop

NextSkip ==
    \/ CounterOp
    \/ CallPanic
    \/ fih_panic_loop
    \/ Skip

NextBoot ==
    \/ MainStart
    \/ ReadLcsSwitch
    \/ ReadLcsCase
    \/ MainDecide
    \/ Glitch
    \/ fih_panic_loop

NextRace ==
    \/ \E i \in Contexts :
         \/ RaceBegin(i)
         \/ RaceCheck(i)
         \/ RaceLoadVal(i)
         \/ RaceStoreVal(i)
         \/ RaceLoadMsk(i)
         \/ RaceStoreMsk(i)
         \/ RaceSelfCheck(i)
    \/ fih_panic_loop

Spec == Init /\ [][Next]_vars

SpecRace == InitRace /\ [][NextRace]_vars

SpecBoot == InitBoot /\ [][NextBoot]_vars

\* the processor keeps executing the failure loop
SpecLive == Init /\ [][Next]_vars /\ WF_vars(fih_panic_loop)

SpecSkip == Init /\ [][NextSkip]_vars

SpecMid == InitMid /\ [][Next]_vars

SpecFault == Init /\ [][NextFault]_vars

SpecEq == Init /\ [][NextEq]_vars

----------------------------------------------------------------------------
(* Bookkeeping over the recorded operations *)

Returned(h, o) == h.op = o /\ h.outcome = "return"

RECURSIVE SumInc(_)
SumInc(h) ==
    IF h = <<>> THEN 0
    ELSE (IF Returned(h[Len(h)], "get_and_increment") THEN h[Len(h)].cnt
          ELSE 0) + SumInc(SubSeq(h, 1, Len(h) - 1))

RECURSIVE NumDec(_)
NumDec(h) ==
    IF h = <<>> THEN 0
    ELSE (IF Returned(h[Len(h)], "decrement") THEN 1 ELSE 0)
         + NumDec(SubSeq(h, 1, Len(h) - 1))

NoDecrement(h) == \A i \in 1..Len(h) : h[i].op # "decrement"

\* new = old + n as integers, without wrap-around (0 <= n < 65536)
PlusExact(old, n, new) ==
    /\ new.hi - old.hi \in {0, 1}
    /\ ((new.hi - old.hi) * Half) + (new.lo - old.lo) = n

\* w + n > UINT32_MAX as integers (0 <= n < 65536)
ExceedsMax(w, n) == w.hi = Half - 1 /\ w.lo + n > Half - 1

\* the step is a call of operation o
Calls(o) == hist' # hist /\ last'.op = o

----------------------------------------------------------------------------
(* Claims *)

\* C1: after increments n1, n2, ... with no decrement, the decoded counter is
\* the value it started from (0 after construction) plus the sum of the ni,
\* and that sum does not pass UINT32_MAX.
C1_SumOfIncrements ==
    NoDecrement(hist) =>
        PlusExact(start, SumInc(hist), fih_uint_decode(fih_cfi_ctr))

C1_Witness ==
    /\ start = Zero
    /\ Len(hist) = 3
    /\ \A i \in 1..3 : Returned(hist[i], "get_and_increment")
    /\ SumInc(hist) = 261
    /\ fih_uint_decode(fih_cfi_ctr) = W(0, 261)

\* C2: an increment by n >= 1 that returned, followed at once by validate of
\* the snapshot it returned, panics; and from 0, increment(1) returns a
\* snapshot decoding to 0, a second increment(1) returns one decoding to 1
\* with the counter at 2, and validate of that snapshot panics.
C2_Scenario ==
    start = Zero =>
        /\ (Len(hist) >= 1 /\ hist[1].op = "get_and_increment"
              /\ hist[1].cnt = 1)
             => /\ hist[1].outcome = "return"
                /\ fih_uint_decode(hist[1].ret) = Zero
        /\ (Len(hist) >= 2 /\ hist[1].op = "get_and_increment"
              /\ hist[1].cnt = 1 /\ hist[2].op = "get_and_increment"
              /\ hist[2].cnt = 1)
             => /\ hist[2].outcome = "return"
                /\ fih_uint_decode(hist[2].ret) = W(0, 1)
                /\ Len(hist) = 2 => fih_uint_decode(fih_cfi_ctr) = W(0, 2)
                /\ (Len(hist) >= 3 /\ hist[3].op = "validate"
                      /\ hist[3].saved = hist[2].ret)
                     => hist[3].outcome = "panic"

C2_IncrementThenValidatePanics ==
    /\ [][(/\ Returned(last, "get_and_increment")
           /\ last.cnt >= 1
           /\ Calls("validate")
           /\ last'.saved = last.ret)
          => (last'.outcome = "panic" /\ pc' = "panic")]_vars
    /\ []C2_Scenario

C2_Witness ==
    /\ start = Zero
    /\ Len(hist) = 3
    /\ Returned(hist[1], "get_and_increment") /\ hist[1].cnt = 1
    /\ Returned(hist[2], "get_and_increment") /\ hist[2].cnt = 1
    /\ hist[3].op = "validate" /\ hist[3].saved = hist[2].ret
    /\ hist[3].outcome = "panic"
    /\ pc = "panic"

\* C3: get_and_increment(n) panics exactly when decoded + n > UINT32_MAX,
\* and when it panics the counter is as it was before the call.
C3_OverflowPanics ==
    [][Calls("get_and_increment")
       => /\ (last'.outcome = "panic")
               <=> ExceedsMax(fih_uint_decode(fih_cfi_ctr), last'.cnt)
          /\ (last'.outcome = "panic") <=> (pc' = "panic")
          /\ last'.outcome = "panic" => fih_cfi_ctr' = fih_cfi_ctr]_vars

C3_Witness ==
    /\ Len(hist) = 2
    /\ Returned(hist[1], "get_and_increment") /\ hist[1].cnt = 5
    /\ hist[2].op = "get_and_increment" /\ hist[2].outcome = "panic"
    /\ hist[2].cnt = 1
    /\ hist[2].pre = fih_uint_encode(UINT32_MAX)
    /\ fih_cfi_ctr = fih_uint_encode(UINT32_MAX)
    /\ pc = "panic"

\* C4: decrement at a decoded counter of 0 panics and leaves the counter
\* unchanged; no decrement leaves the counter above its value before the call.
C4_UnderflowPanics ==
    [][Calls("decrement")
       => /\ fih_uint_decode(fih_cfi_ctr) = Zero
               => /\ last'.outcome = "panic"
                  /\ pc' = "panic"
                  /\ fih_cfi_ctr' = fih_cfi_ctr
          /\ ~GtW(fih_uint_decode(fih_cfi_ctr'), fih_uint_decode(fih_cfi_ctr))
          /\ fih_uint_decode(fih_cfi_ctr) # UINT32_MAX
               => fih_uint_decode(fih_cfi_ctr') # UINT32_MAX]_vars

C4_Witness ==
    /\ Len(hist) = 3
    /\ Returned(hist[1], "get_and_increment") /\ hist[1].cnt = 1
    /\ Returned(hist[2], "decrement")
    /\ hist[3].op = "decrement" /\ hist[3].outcome = "panic"
    /\ hist[3].pre = fih_uint_encode(Zero)
    /\ fih_cfi_ctr = fih_uint_encode(Zero)
    /\ pc = "panic"

\* C5: when get_and_increment(n) returns, the decoded counter is exactly n
\* above its value before the call and the snapshot returned is the counter,
\* value word and check word, as it was before the call.
C5_IncrementReturn ==
    [][(Calls("get_and_increment") /\ last'.outcome = "return")
       => /\ PlusExact(fih_uint_decode(fih_cfi_ctr), last'.cnt,
                       fih_uint_decode(fih_cfi_ctr'))
          /\ last'.ret.val = fih_cfi_ctr.val
          /\ last'.ret.msk = fih_cfi_ctr.msk]_vars

C5_Witness ==
    /\ Returned(last, "get_and_increment")
    /\ last.cnt = 255
    /\ last.pre = fih_uint_encode(SubW(UINT32_MAX, 255))
    /\ last.ret = last.pre
    /\ fih_cfi_ctr = fih_uint_encode(UINT32_MAX)

\* C6: once panicked the program stays panicked, no later operation runs or
\* changes the counter, and an operation either returns normally (an
\* increment with a sound snapshot of the counter before it) or halts.
C6_Outcomes ==
    /\ \A i \in 1..Len(hist) :
         /\ hist[i].outcome \in {"return", "panic"}
         /\ hist[i].outcome = "panic" => (i = Len(hist) /\ pc = "panic")
         /\ Returned(hist[i], "get_and_increment")
              => (fih_uint_validate(hist[i].ret) /\ hist[i].ret = hist[i].pre)
    /\ last.outcome = "panic" => pc = "panic"

C6_PanicAbsorbing ==
    /\ [][pc = "panic"
          => /\ pc' = "panic"
             /\ fih_cfi_ctr' = fih_cfi_ctr
             /\ hist' = hist
             /\ last'.op = "panic_loop"]_vars
    /\ []C6_Outcomes

C6_Witness ==
    /\ pc = "panic"
    /\ last.op = "panic_loop"
    /\ Len(hist) = 2
    /\ Returned(hist[1], "get_and_increment")
    /\ hist[2].op = "decrement" /\ hist[2].outcome = "panic"
    /\ faults = 1
    /\ test_mode /\ sentinel = 2

\* C7: validate(saved) returns normally exactly when saved and the counter
\* are equal word for word and structurally sound; in every other case,
\* a corrupted counter included, it panics.
C7_ValidateIffEqual ==
    [][Calls("validate")
       => /\ (last'.outcome = "return")
               <=> /\ last'.saved.val = fih_cfi_ctr.val
                   /\ last'.saved.msk = fih_cfi_ctr.msk
                   /\ fih_uint_validate(fih_cfi_ctr)
          /\ (last'.outcome = "return")
               <=> (fih_uint_eq(last'.saved, fih_cfi_ctr) = FIH_TRUE)
          /\ last'.outcome = "return" => pc' = "run"
          /\ last'.outcome # "return"
               => (last'.outcome = "panic" /\ pc' = "panic")]_vars

C7_Witness ==
    /\ faults = 1
    /\ Len(hist) = 1
    /\ hist[1].op = "validate" /\ hist[1].outcome = "panic"
    /\ hist[1].saved.val = hist[1].pre.val
    /\ hist[1].saved.msk # hist[1].pre.msk
    /\ pc = "panic"

\* C8: the decoded counter is the value it started from plus the sum of the
\* increments minus the number of decrements, as integers in 0..UINT32_MAX:
\* no sequence of operations wraps it.
C8_NoWrap ==
    LET d == SumInc(hist) - NumDec(hist)
        v == fih_uint_decode(fih_cfi_ctr)
    IN  /\ v.hi \in 0..(Half - 1)
        /\ v.lo \in 0..(Half - 1)
        /\ IF d >= 0 THEN PlusExact(start, d, v) ELSE PlusExact(v, 0 - d, start)

C8_Witness ==
    /\ pc = "run"
    /\ start = SubW(UINT32_MAX, 5)
    /\ Len(hist) = 3
    /\ Returned(hist[1], "get_and_increment") /\ hist[1].cnt = 5
    /\ Returned(hist[2], "decrement")
    /\ Returned(hist[3], "decrement")
    /\ fih_uint_decode(fih_cfi_ctr) = SubW(UINT32_MAX, 2)

\* C9: only get_and_increment and decrement write the counter: validate,
\* the panic action and the delay hooks leave both of its words unchanged.
C9_OnlyIncDecWrite ==
    [][/\ last'.op \in {"validate", "panic_call", "panic_loop",
                        "delay_init", "delay_random"}
            => (/\ fih_cfi_ctr'.val = fih_cfi_ctr.val
                /\ fih_cfi_ctr'.msk = fih_cfi_ctr.msk)
       /\ fih_cfi_ctr' # fih_cfi_ctr
            => last'.op \in {"get_and_increment", "decrement"}]_vars

C9_Witness ==
    /\ last.op = "delay_random" /\ last.rnd = 255
    /\ Len(hist) = 3
    /\ Returned(hist[1], "get_and_increment") /\ hist[1].cnt = 1
    /\ Returned(hist[2], "decrement")
    /\ Returned(hist[3], "validate")
    /\ hist[3].saved = hist[1].ret
    /\ fih_cfi_ctr = hist[3].pre

\* C10: with double-width redundancy, a fault in exactly one word of the
\* counter leaves it structurally unsound, and the next counter operation on
\* an unsound counter panics and leaves it unsound.
C10_SingleWordFaultDetected ==
    [][/\ (last'.op = "fault" /\ faults' = 1)
            => /\ ~fih_uint_validate(fih_cfi_ctr')
               /\ (fih_cfi_ctr'.val = fih_cfi_ctr.val)
                    # (fih_cfi_ctr'.msk = fih_cfi_ctr.msk)
       /\ (double_vars /\ hist' # hist /\ ~fih_uint_validate(fih_cfi_ctr))
            => /\ last'.outcome = "panic"
               /\ pc' = "panic"
               /\ ~fih_uint_validate(fih_cfi_ctr')]_vars

C10_Witness ==
    /\ double_vars
    /\ ~decode_validates
    /\ faults = 1
    /\ Len(hist) = 2
    /\ Returned(hist[1], "get_and_increment")
    /\ hist[2].op = "decrement" /\ hist[2].outcome = "panic"
    /\ ~fih_uint_validate(hist[2].pre)
    /\ fih_cfi_ctr # hist[2].pre
    /\ pc = "panic"

\* C11: a fresh encoding of the plain value of the counter compares equal to
\* the counter that the counter operations built, and after one bit of the
\* value word or of the check word is flipped the counter never compares
\* equal to a fresh encoding of the value it had.
C11_EncodedEquality ==
    [][Calls("validate")
       => /\ (/\ faults = 0
              /\ last'.saved = fih_uint_encode(fih_uint_decode(fih_cfi_ctr)))
            => /\ last'.outcome = "return"
               /\ fih_uint_eq(last'.saved, fih_cfi_ctr) = FIH_TRUE
               /\ fih_uint_eq(fih_cfi_ctr, last'.saved) = FIH_TRUE
          /\ (/\ last.op = "fault"
              /\ fih_uint_validate(last.pre)
              /\ last'.saved = fih_uint_encode(fih_uint_decode(last.pre)))
            => /\ last'.outcome = "panic"
               /\ fih_uint_eq(last'.saved, fih_cfi_ctr) # FIH_TRUE
               /\ fih_uint_eq(fih_cfi_ctr, last'.saved) # FIH_TRUE]_vars

C11_Witness ==
    /\ faults = 1
    /\ Len(hist) = 2
    /\ Returned(hist[1], "get_and_increment") /\ hist[1].cnt = 255
    /\ hist[2].op = "validate" /\ hist[2].outcome = "panic"
    /\ hist[2].saved = fih_uint_encode(W(0, 255))
    /\ hist[2].pre.val = W(0, 255)
    /\ hist[2].pre.msk = XorW(hist[2].saved.msk, BitW(17))
    /\ pc = "panic"

\* C13: decrement called on a structurally sound counter that decodes to at
\* least 1 returns normally, leaves the decoded counter exactly 1 smaller and
\* leaves the encoding sound.
C13_DecrementReturns ==
    [][(/\ Calls("decrement")
        /\ fih_uint_decode(fih_cfi_ctr) # Zero
        /\ fih_uint_validate(fih_cfi_ctr))
       => /\ last'.outcome = "return"
          /\ pc' = "run"
          /\ PlusExact(fih_uint_decode(fih_cfi_ctr'), 1,
                       fih_uint_decode(fih_cfi_ctr))
          /\ fih_uint_validate(fih_cfi_ctr')]_vars

C13_Witness ==
    /\ double_vars
    /\ Len(hist) = 3
    /\ Returned(hist[1], "get_and_increment") /\ hist[1].cnt = 5
    /\ Returned(hist[2], "decrement")
    /\ Returned(hist[3], "decrement")
    /\ hist[3].pre = fih_uint_encode(W(0, 4))
    /\ fih_cfi_ctr = fih_uint_encode(W(0, 3))
    /\ pc = "run"

\* the plain value the recorded operations lead to, whatever the build
ExpectedPlain ==
    LET d == SumInc(hist) - NumDec(hist)
    IN  IF d >= 0 THEN AddW(start, d) ELSE SubW(start, 0 - d)

\* C14: without a fault the double-width path and the re-encoding path give
\* the same two words from every reachable counter, the counter is the
\* encoding of the value the operations lead to in either build, its check
\* word is its value word XOR FIH_UINT_MASK_VALUE, and an increment or a
\* decrement panics only for overflow or underflow, never in a self-check.
C14_PathsAgree ==
    /\ fih_cfi_ctr.msk = XorW(fih_cfi_ctr.val, FIH_UINT_MASK_VALUE)
    /\ fih_cfi_ctr = fih_uint_encode(ExpectedPlain)
    /\ \A dv \in BOOLEAN :
         /\ fih_cfi_decrement(fih_cfi_ctr, TRUE, dv)
              = fih_cfi_decrement(fih_cfi_ctr, FALSE, dv)
         /\ \A cnt \in CntValues :
              fih_cfi_get_and_increment(fih_cfi_ctr, cnt, TRUE, dv)
                = fih_cfi_get_and_increment(fih_cfi_ctr, cnt, FALSE, dv)
    /\ \A i \in 1..Len(hist) :
         /\ (hist[i].op = "get_and_increment" /\ hist[i].outcome = "panic")
              => ExceedsMax(fih_uint_decode(hist[i].pre), hist[i].cnt)
         /\ (hist[i].op = "decrement" /\ hist[i].outcome = "panic")
              => fih_uint_decode(hist[i].pre) = Zero

C14_Witness ==
    /\ double_vars
    /\ start = Zero
    /\ Len(hist) = 3
    /\ Returned(hist[1], "get_and_increment") /\ hist[1].cnt = 255
    /\ Returned(hist[2], "decrement")
    /\ Returned(hist[3], "get_and_increment") /\ hist[3].cnt = 5
    /\ fih_cfi_ctr = fih_uint_encode(W(0, 259))

\* C18: validate of the snapshot that get_and_increment(n) returned returns
\* normally exactly when the operations after that call changed the counter
\* by a net total of -n, and panics otherwise.
C18_Balanced ==
    [][Calls("validate")
       => \A i \in 1..Len(hist) :
            (Returned(hist[i], "get_and_increment")
               /\ hist[i].ret = last'.saved)
            => /\ (last'.outcome = "return")
                    <=> (SumInc(SubSeq(hist, i + 1, Len(hist)))
                           - NumDec(SubSeq(hist, i + 1, Len(hist)))
                         = 0 - hist[i].cnt)
               /\ (last'.outcome # "return")
                    <=> (last'.outcome = "panic" /\ pc' = "panic")]_vars

C18_Witness ==
    /\ Len(hist) = 3
    /\ Returned(hist[1], "get_and_increment") /\ hist[1].cnt = 1
    /\ Returned(hist[2], "decrement")
    /\ Returned(hist[3], "validate")
    /\ hist[3].saved = hist[1].ret
    /\ start = SubW(UINT32_MAX, 2)
    /\ pc = "run"

\* C12: in test mode the panic action writes 2 to 0xAA01000 and keeps doing
\* so for ever; in production mode it never writes there; nothing else
\* writes that word.
C12_Safety ==
    /\ sentinel \in {0, 2}
    /\ ~test_mode => sentinel = 0
    /\ sentinel = 2 => pc = "panic"

C12_Sentinel ==
    /\ []C12_Safety
    /\ [][/\ sentinel' # sentinel => (test_mode /\ last'.op = "panic_loop")
          /\ sentinel = 2 => sentinel' = 2
          /\ (test_mode /\ pc = "panic" /\ loop_pc = 1) => sentinel' = 2]_vars
    /\ (test_mode /\ pc = "panic") ~> (sentinel = 2)
    /\ []((test_mode /\ pc = "panic") => []<>(loop_pc = 1))

C12_Witness ==
    /\ test_mode
    /\ sentinel = 2
    /\ pc = "panic"
    /\ loop_pc = 1
    /\ last.op = "panic_loop"
    /\ Len(hist) = 1
    /\ hist[1].op = "decrement" /\ hist[1].outcome = "panic"

\* C15: in production mode, with at most one instruction of the failure loop
\* skipped, the next instruction is again a branch to fih_panic_loop or the
\* final infinite loop, and control stays in fih_panic_loop.
C15_StaysHalted ==
    [][(~test_mode /\ pc = "panic" /\ faults' <= 1)
       => /\ pc' = "panic"
          /\ PanicInstr(loop_pc', test_mode) \in {"branch", "spin"}
          /\ loop_pc' \in 1..(NumBranches + 1)]_vars

C15_Witness ==
    /\ ~test_mode
    /\ pc = "panic"
    /\ faults = 1
    /\ last.op = "skip"
    /\ loop_pc = 2
    /\ PanicInstr(loop_pc, test_mode) = "branch"

\* C16: without a fault cyboot_read_lcs returns CYBOOT_SUCCESS with *lcs =
\* checksum for the seven life-cycle values, CYBOOT_SUCCESS with *lcs =
\* LCS_RMA for the four RMA key values, CYBOOT_BOOTROW_CORRUPTED with *lcs =
\* LCS_CORRUPTED for every other checksum, and never reaches FIH_PANIC.
C16_ReadLcs ==
    faults = 0 =>
        /\ boot.pc # "panicked"
        /\ pc # "panic"
        /\ boot.pc \in {"decide", "done"} =>
             IF boot.img \in {LCS_VIRGIN, LCS_SORT, LCS_PROVISIONED,
                              LCS_NORMAL, LCS_NORMAL_NO_SECURE,
                              LCS_NORMAL_PROVISIONED, LCS_SECURE}
             THEN boot.res = 0 /\ boot.lcs = boot.img
             ELSE IF boot.img \in {LCS_RMA_KBR, LCS_RMA_KBNR, LCS_RMA_KPBR,
                                   LCS_RMA_KPBSR}
             THEN boot.res = 0 /\ boot.lcs = W(17476, 21845)
             ELSE boot.res = 0 - 1 /\ boot.lcs = W(65278, 65278)

C16_Witness ==
    /\ faults = 0
    /\ boot.pc = "decide"
    /\ boot.img = LCS_RMA_KPBR
    /\ boot.res = CYBOOT_SUCCESS
    /\ boot.lcs = LCS_RMA

\* C17: without a fault a run of main signals exactly one outcome: success
\* (launch_oem_ram_app) exactly when the first word of the image is one of
\* the four RMA key values, failure for every other word.
C17_Outcome ==
    faults = 0 =>
        /\ boot.pc # "done" => boot.sim = "none"
        /\ boot.pc = "done" =>
             /\ boot.sim \in {"success", "failed"}
             /\ (boot.sim = "success")
                  <=> boot.img \in {LCS_RMA_KBR, LCS_RMA_KBNR, LCS_RMA_KPBR,
                                    LCS_RMA_KPBSR}

C17_OneOutcome ==
    /\ []C17_Outcome
    /\ [][boot.sim # "none" => boot'.sim = boot.sim]_vars

C17_Witness ==
    /\ faults = 0
    /\ boot.pc = "done"
    /\ boot.img = LCS_SECURE
    /\ boot.res = CYBOOT_SUCCESS
    /\ boot.lcs = LCS_SECURE
    /\ boot.sim = "failed"

RaceIdle == \A i \in Contexts : ctx.run[i].pc = "idle"

\* a context panicked in a structural self-check
RaceTornPanic ==
    \E i \in Contexts :
      ctx.run[i].pc = "panicked" /\ ctx.run[i].cause = "selfcheck"

\* both contexts returned and the counter is not what their operations add
\* up to
RaceLostUpdate ==
    /\ RaceIdle
    /\ pc = "run"
    /\ fih_uint_decode(fih_cfi_ctr) # ExpectedPlain

\* C19: as long as no operation began while another was in progress, no
\* update is lost and no self-check panics; with interleaved operations a
\* lost update is reached (C19_Witness), and so is RaceTornPanic.
C19_NoRaceNoLoss ==
    ~ctx.overlap =>
        /\ ~RaceTornPanic
        /\ ~RaceLostUpdate
        /\ RaceIdle => fih_cfi_ctr = fih_uint_encode(ExpectedPlain)

C19_Witness ==
    /\ ctx.overlap
    /\ RaceLostUpdate
    /\ fih_uint_validate(fih_cfi_ctr)
    /\ Len(hist) = 2
    /\ Returned(hist[1], "get_and_increment") /\ hist[1].cnt = 1
    /\ Returned(hist[2], "get_and_increment") /\ hist[2].cnt = 1
    /\ fih_uint_decode(fih_cfi_ctr) = W(0, 1)

====
